---- MODULE Spec2Model ----
(***************************************************************************)
(* Secure_Note: the JSON-file backed pad server (src/server.js) and the    *)
(* editor and summarizer of its pad page (src/unnamed/part_000).           *)
(*                                                                         *)
(* Every route handler is an async function.  Between two awaits the code  *)
(* runs without interruption, so one action of the model is one file       *)
(* system operation together with the synchronous code that follows it up  *)
(* to the next await.  A request that is suspended keeps the pad record it *)
(* parsed (its snapshot) in the client slot that issued it.                *)
(*                                                                         *)
(* The createdAt field of a pad record is written at creation and read by  *)
(* no handler; it is left out of the record.                               *)
(***************************************************************************)
EXTENDS Integers, Sequences, FiniteSets, TLC

(***************************************************************************)
(* Bounds of the model                                                     *)
(***************************************************************************)
MaxFiles == 1          \* file ids generateId hands out in one behaviour

(***************************************************************************)
(* Program constants                                                       *)
(***************************************************************************)
MAX_FILE_SIZE == 10 * 1024 * 1024
Lifetime == 24 * 60 * 60 * 1000
MinPasswordLength == 4
HeaderBytes == 8

(***************************************************************************)
(* Input domains                                                           *)
(***************************************************************************)
PadIds == {"demo", "notes", "ab", "a b"}

\* The pad the requests of a specification name, unless it says otherwise.
RequestPads == {"demo"}

\* A password is a JavaScript string: a sequence of UTF-16 code units.
\* NoSecret is the password field absent from the request body.
Abcd == <<97, 98, 99, 100>>
Wxyz == <<119, 120, 121, 122>>
Abc == <<97, 98, 99>>
NoSecret == <<-1>>
Secrets == {Abcd, Wxyz, Abc, NoSecret}
Contents == {"hello world"}
Clients == {"c1", "c2"}
FileIds == 1..MaxFiles

\* The instants (milliseconds since the server started) at which the model
\* observes the clock: the start, a millisecond later, and the same a
\* lifetime later.
Instants == {0, 1, Lifetime, Lifetime + 1}

NoPad == [absent |-> TRUE]
NoData == [none |-> TRUE]
NoBody == [empty |-> TRUE]

VARIABLES now, pads, uploads, nextId, cl, sw, last, pipeline, page

vars == <<now, pads, uploads, nextId, cl, sw, last, pipeline, page>>

(***************************************************************************)
(* Credential hashing: the SHA-256 hex digest of the password's bytes, an  *)
(* injective function of the bytes.  update() throws on a missing          *)
(* password.                                                               *)
(***************************************************************************)
HashThrows(password) == password = NoSecret

IsHighSurrogate(u) == u >= 55296 /\ u <= 56319

IsLowSurrogate(u) == u >= 56320 /\ u <= 57343

\* update(password) hashes the UTF-8 encoding of the string; a surrogate
\* without its partner is encoded as U+FFFD.
RECURSIVE Utf8(_)
Utf8(units) ==
    IF units = <<>> THEN <<>>
    ELSE LET u == Head(units)
         IN  IF u < 128 THEN <<u>> \o Utf8(Tail(units))
             ELSE IF u < 2048
             THEN <<192 + (u \div 64), 128 + (u % 64)>> \o Utf8(Tail(units))
             ELSE IF IsHighSurrogate(u) /\ Len(units) >= 2 /\ IsLowSurrogate(units[2])
             THEN LET cp == 65536 + (u - 55296) * 1024 + (units[2] - 56320)
                  IN  <<240 + (cp \div 262144), 128 + ((cp \div 4096) % 64),
                        128 + ((cp \div 64) % 64), 128 + (cp % 64)>>
                      \o Utf8(Tail(Tail(units)))
             ELSE IF IsHighSurrogate(u) \/ IsLowSurrogate(u)
             THEN <<239, 191, 189>> \o Utf8(Tail(units))
             ELSE <<224 + (u \div 4096), 128 + ((u \div 64) % 64), 128 + (u % 64)>>
                  \o Utf8(Tail(units))

\* hashPassword with a digest that forgets the password.
hashPasswordConstant(password) == <<"sha256", <<>>>>

hashPassword(password) == <<"sha256", Utf8(password)>>

PasswordMatches(data, password) == data.passwordHash = hashPassword(password)

(***************************************************************************)
(* Requests and responses                                                  *)
(***************************************************************************)
Rsp(status, body) == [status |-> status, body |-> body]

Err(status, msg) == Rsp(status, [error |-> msg])

Idle == [pc |-> "idle", op |-> "none", pad |-> "", pw |-> <<>>, arg |-> NoData,
         data |-> NoData]

NoResponse == [op |-> "none", pad |-> "", pw |-> <<>>, arg |-> NoData,
               resp |-> Rsp(0, NoBody)]

\* last is the response sent by the step just taken, NoResponse when the
\* step sent none.
Silent == last' = NoResponse

\* The handler of client c sends its response and the slot is free again.
Respond(c, op, p, pw, arg, resp) ==
    /\ cl' = [cl EXCEPT ![c] = Idle]
    /\ last' = [op |-> op, pad |-> p, pw |-> pw, arg |-> arg, resp |-> resp]

\* The handler of client c awaits a file system operation; data is the pad
\* record it holds in memory.
Suspend(c, pc, op, p, pw, arg, data) ==
    /\ cl' = [cl EXCEPT ![c] = [pc |-> pc, op |-> op, pad |-> p, pw |-> pw,
                                 arg |-> arg, data |-> data]]
    /\ Silent

Free(c) == cl[c].pc = "idle"

Exists(p) == pads[p] # NoPad

\* readFile + JSON.parse of the pad record, then the hash comparison: the
\* first throws when the pad file is missing, hashPassword throws when the
\* password is missing.
ReadThrows(p, pw) == ~Exists(p) \/ HashThrows(pw)

(***************************************************************************)
(* The clock (milliseconds)                                                *)
(***************************************************************************)
\* The clock moves on to the next instant the model observes.
Advance(t) ==
    /\ t > now
    /\ \A u \in Instants : u > now => t <= u
    /\ now' = t
    /\ Silent
    /\ UNCHANGED <<page, pipeline, pads, uploads, nextId, cl, sw>>

(***************************************************************************)
(* GET /api/pad/:padId/exists                                              *)
(***************************************************************************)
CheckExists(c, p) ==
    /\ Free(c)
    /\ Respond(c, "exists", p, <<>>, NoData, Rsp(200, [exists |-> Exists(p)]))
    /\ UNCHANGED <<page, pipeline, now, pads, uploads, nextId, sw>>

(***************************************************************************)
(* POST /api/pad/:padId/create                                             *)
(***************************************************************************)
NewPad(password, t) ==
    [content |-> "", files |-> <<>>, passwordHash |-> hashPassword(password),
     lastModified |-> t]

CreateBegin(c, p, pw) ==
    /\ Free(c)
    /\ IF pw = NoSecret \/ Len(pw) < MinPasswordLength
       THEN Respond(c, "create", p, pw, NoData,
                    Err(400, "Password must be at least 4 characters"))
       ELSE Suspend(c, "create_write", "create", p, pw, NoData, NewPad(pw, now))
    /\ UNCHANGED <<page, pipeline, now, pads, uploads, nextId, sw>>

\* A create sent for a pad that does not exist when the request arrives.
CreateUnused(c, p, pw) == ~Exists(p) /\ CreateBegin(c, p, pw)

CreateWrite(c) ==
    /\ cl[c].pc = "create_write"
    /\ pads' = [pads EXCEPT ![cl[c].pad] = cl[c].data]
    /\ Respond(c, "create", cl[c].pad, cl[c].pw, NoData, Rsp(200, [success |-> TRUE]))
    /\ UNCHANGED <<page, pipeline, now, uploads, nextId, sw>>

(***************************************************************************)
(* POST /api/pad/:padId/verify                                             *)
(***************************************************************************)
\* The response computed from the pad files in store.
VerifyResponse(store, p, pw) ==
    IF store[p] = NoPad \/ HashThrows(pw)
    THEN Rsp(404, [success |-> FALSE, error |-> "Pad not found"])
    ELSE Rsp(200, [success |-> PasswordMatches(store[p], pw)])

Verify(c, p, pw) ==
    /\ Free(c)
    /\ Respond(c, "verify", p, pw, NoData, VerifyResponse(pads, p, pw))
    /\ UNCHANGED <<page, pipeline, now, pads, uploads, nextId, sw>>

(***************************************************************************)
(* POST /api/pad/:padId/get                                                *)
(***************************************************************************)
\* GetResponse without the comparison of the password hash.
GetResponseUnchecked(p, pw) ==
    IF ReadThrows(p, pw)
    THEN Err(404, "Pad not found")
    ELSE Rsp(200, [content |-> pads[p].content, files |-> pads[p].files])

GetResponse(p, pw) ==
    IF ReadThrows(p, pw)
    THEN Err(404, "Pad not found")
    ELSE IF ~PasswordMatches(pads[p], pw)
         THEN Err(401, "Incorrect password")
         ELSE Rsp(200, [content |-> pads[p].content, files |-> pads[p].files])

GetPad(c, p, pw) ==
    /\ Free(c)
    /\ Respond(c, "get", p, pw, NoData, GetResponse(p, pw))
    /\ UNCHANGED <<page, pipeline, now, pads, uploads, nextId, sw>>

(***************************************************************************)
(* POST /api/pad/:padId/save                                               *)
(***************************************************************************)
\* SaveRead without the comparison of the password hash.
SaveReadUnchecked(c, p, pw, content) ==
    /\ Free(c)
    /\ IF ReadThrows(p, pw)
       THEN Respond(c, "save", p, pw, content, Err(500, "Failed to save"))
       ELSE Suspend(c, "save_write", "save", p, pw, content,
                    [pads[p] EXCEPT !.content = content, !.lastModified = now])
    /\ UNCHANGED <<page, pipeline, now, pads, uploads, nextId, sw>>

SaveRead(c, p, pw, content) ==
    /\ Free(c)
    /\ IF ReadThrows(p, pw)
       THEN Respond(c, "save", p, pw, content, Err(500, "Failed to save"))
       ELSE IF ~PasswordMatches(pads[p], pw)
            THEN Respond(c, "save", p, pw, content, Err(401, "Incorrect password"))
            ELSE Suspend(c, "save_write", "save", p, pw, content,
                         [pads[p] EXCEPT !.content = content,
                                         !.lastModified = now])
    /\ UNCHANGED <<page, pipeline, now, pads, uploads, nextId, sw>>

\* SaveWrite answering without the writeFile of the record.
SaveWriteDropped(c) ==
    /\ cl[c].pc = "save_write"
    /\ Respond(c, "save", cl[c].pad, cl[c].pw, cl[c].arg, Rsp(200, [success |-> TRUE]))
    /\ UNCHANGED <<page, pipeline, now, pads, uploads, nextId, sw>>

\* SaveWrite that skips the write, and still answers success, when the
\* record was written by someone else since it was read.
SaveWriteFirstWins(c) ==
    /\ cl[c].pc = "save_write"
    /\ pads' = IF pads[cl[c].pad].lastModified = cl[c].data.lastModified
                  /\ pads[cl[c].pad].content # cl[c].data.content
               THEN pads
               ELSE [pads EXCEPT ![cl[c].pad] = cl[c].data]
    /\ Respond(c, "save", cl[c].pad, cl[c].pw, cl[c].arg, Rsp(200, [success |-> TRUE]))
    /\ UNCHANGED <<page, pipeline, now, uploads, nextId, sw>>

SaveWrite(c) ==
    /\ cl[c].pc = "save_write"
    /\ pads' = [pads EXCEPT ![cl[c].pad] = cl[c].data]
    /\ Respond(c, "save", cl[c].pad, cl[c].pw, cl[c].arg, Rsp(200, [success |-> TRUE]))
    /\ UNCHANGED <<page, pipeline, now, uploads, nextId, sw>>

(***************************************************************************)
(* Uploaded files.  A file is its original name (stem and extension), the  *)
(* first HeaderBytes bytes of its buffer, and its size in bytes.           *)
(***************************************************************************)
HexDigits == <<"0", "1", "2", "3", "4", "5", "6", "7",
               "8", "9", "a", "b", "c", "d", "e", "f">>

\* Buffer.toString('hex'): two hex digits per byte.
RECURSIVE ToHex(_)
ToHex(bytes) ==
    IF bytes = <<>> THEN <<>>
    ELSE <<HexDigits[(Head(bytes) \div 16) + 1], HexDigits[(Head(bytes) % 16) + 1]>>
         \o ToHex(Tail(bytes))

StartsWith(str, prefix) ==
    /\ Len(prefix) <= Len(str)
    /\ SubSeq(str, 1, Len(prefix)) = prefix

SigPdf == <<"2", "5", "5", "0", "4", "4", "4", "6">>
SigJpeg == <<"f", "f", "d", "8", "f", "f">>
SigPng == <<"8", "9", "5", "0", "4", "e", "4", "7">>
SigZip == <<"5", "0", "4", "b", "0", "3", "0", "4">>
SigZipEmpty == <<"5", "0", "4", "b", "0", "5", "0", "6">>

\* path.extname(name).toLowerCase()
ToLowerCase(ext) ==
    CASE ext = ".PDF" -> ".pdf"
      [] ext = ".PNG" -> ".png"
      [] ext = ".JPG" -> ".jpg"
      [] OTHER -> ext

extname(name) == name.ext

AllowedExts == {".pdf", ".jpg", ".jpeg", ".png", ".docx"}

\* validateMime trusting the extension instead of the header.
validateMimeByExt(file) ==
    /\ file.size >= HeaderBytes
    /\ ToLowerCase(extname(file.name)) \in {".pdf", ".jpg", ".jpeg", ".png", ".docx"}

\* validateMime comparing the extension as it is written.
validateMimeCaseSensitive(file) ==
    LET ext == extname(file.name)
        header == ToHex(SubSeq(file.header, 1, Len(file.header)))
    IN  IF file.size < HeaderBytes THEN FALSE
        ELSE IF ext = ".pdf" THEN StartsWith(header, SigPdf)
        ELSE IF ext = ".jpg" \/ ext = ".jpeg" THEN StartsWith(header, SigJpeg)
        ELSE IF ext = ".png" THEN StartsWith(header, SigPng)
        ELSE IF ext = ".docx"
             THEN StartsWith(header, SigZip) \/ StartsWith(header, SigZipEmpty)
        ELSE FALSE

validateMime(file) ==
    LET ext == ToLowerCase(extname(file.name))
        header == ToHex(SubSeq(file.header, 1, Len(file.header)))
    IN  IF file.size < HeaderBytes THEN FALSE
        ELSE IF ext = ".pdf" THEN StartsWith(header, SigPdf)
        ELSE IF ext = ".jpg" \/ ext = ".jpeg" THEN StartsWith(header, SigJpeg)
        ELSE IF ext = ".png" THEN StartsWith(header, SigPng)
        ELSE IF ext = ".docx"
             THEN StartsWith(header, SigZip) \/ StartsWith(header, SigZipEmpty)
        ELSE FALSE

\* multer: fileFilter runs when the file part starts, the size limit trips
\* while the part is read into memory; either one ends the request before
\* the route handler is called.
fileFilter(file) == ToLowerCase(extname(file.name)) \in AllowedExts

\* multer without the fileSize limit.
OverLimitOff(file) == FALSE

OverLimit(file) == file.size > MAX_FILE_SIZE

NoFile == [nofile |-> TRUE]

FileInfo(id, file, uploadedAt, expiresAt) ==
    [id |-> id, name |-> file.name, size |-> file.size,
     uploadedAt |-> uploadedAt, expiresAt |-> expiresAt]

(***************************************************************************)
(* POST /api/upload/:padId                                                 *)
(***************************************************************************)
UploadRead(c, p, pw, file) ==
    /\ Free(c)
    /\ IF file # NoFile /\ ~fileFilter(file)
       THEN Respond(c, "upload", p, pw, file, Err(500, "Invalid file type")) /\ nextId' = nextId
       ELSE IF file # NoFile /\ OverLimit(file)
       THEN Respond(c, "upload", p, pw, file, Err(500, "File too large")) /\ nextId' = nextId
       ELSE IF file = NoFile
       THEN Respond(c, "upload", p, pw, file, Err(400, "No file provided")) /\ nextId' = nextId
       ELSE IF ReadThrows(p, pw)
       THEN Respond(c, "upload", p, pw, file, Err(500, "Upload failed")) /\ nextId' = nextId
       ELSE IF ~PasswordMatches(pads[p], pw)
       THEN Respond(c, "upload", p, pw, file, Err(401, "Incorrect password")) /\ nextId' = nextId
       ELSE IF ~validateMime(file)
       THEN Respond(c, "upload", p, pw, file, Err(400, "Invalid or corrupted file"))
            /\ nextId' = nextId
       ELSE /\ nextId <= MaxFiles
            /\ nextId' = nextId + 1
            /\ Suspend(c, "upload_payload", "upload", p, pw,
                       [file |-> file, id |-> nextId], pads[p])
    /\ UNCHANGED <<page, pipeline, now, pads, uploads, sw>>

\* The payload is on disk; the handler builds fileInfo from two readings of
\* the clock (new Date() and Date.now()), d milliseconds apart, pushes it on
\* the list of its snapshot and issues the write of the pad record.
UploadPayload(c, d) ==
    /\ cl[c].pc = "upload_payload"
    /\ now + d \in Instants
    /\ uploads' = uploads \cup {<<cl[c].pad, cl[c].arg.id>>}
    /\ now' = now + d
    /\ LET info == FileInfo(cl[c].arg.id, cl[c].arg.file, now, now + d + Lifetime)
       IN  Suspend(c, "upload_record", "upload", cl[c].pad, cl[c].pw,
                   [file |-> cl[c].arg.file, info |-> info],
                   [cl[c].data EXCEPT !.files = Append(@, info)])
    /\ UNCHANGED <<page, pipeline, pads, nextId, sw>>

UploadRecord(c) ==
    /\ cl[c].pc = "upload_record"
    /\ pads' = [pads EXCEPT ![cl[c].pad] = cl[c].data]
    /\ Respond(c, "upload", cl[c].pad, cl[c].pw, cl[c].arg.file,
               Rsp(200, [success |-> TRUE, file |-> cl[c].arg.info]))
    /\ UNCHANGED <<page, pipeline, now, uploads, nextId, sw>>

(***************************************************************************)
(* POST /files/:padId/:fileId                                              *)
(***************************************************************************)
Find(files, id) ==
    IF \E i \in 1..Len(files) : files[i].id = id
    THEN files[CHOOSE i \in 1..Len(files) :
                 /\ files[i].id = id
                 /\ \A j \in 1..(i - 1) : files[j].id # id]
    ELSE NoData

\* DownloadRead without the expiry check.
DownloadReadNoExpiry(c, p, pw, fileId) ==
    /\ Free(c)
    /\ IF ReadThrows(p, pw)
       THEN Respond(c, "download", p, pw, fileId, Err(500, "Download failed"))
       ELSE IF ~PasswordMatches(pads[p], pw)
       THEN Respond(c, "download", p, pw, fileId, Err(401, "Unauthorized"))
       ELSE LET fileInfo == Find(pads[p].files, fileId)
            IN  IF fileInfo = NoData
                THEN Respond(c, "download", p, pw, fileId, Err(404, "File not found"))
                ELSE Suspend(c, "download_readdir", "download", p, pw,
                             fileInfo, NoData)
    /\ UNCHANGED <<page, pipeline, now, pads, uploads, nextId, sw>>

DownloadRead(c, p, pw, fileId) ==
    /\ Free(c)
    /\ IF ReadThrows(p, pw)
       THEN Respond(c, "download", p, pw, fileId, Err(500, "Download failed"))
       ELSE IF ~PasswordMatches(pads[p], pw)
       THEN Respond(c, "download", p, pw, fileId, Err(401, "Unauthorized"))
       ELSE LET fileInfo == Find(pads[p].files, fileId)
            IN  IF fileInfo = NoData
                THEN Respond(c, "download", p, pw, fileId, Err(404, "File not found"))
                ELSE IF fileInfo.expiresAt < now
                THEN Respond(c, "download", p, pw, fileId, Err(410, "File expired"))
                ELSE Suspend(c, "download_readdir", "download", p, pw,
                             fileInfo, NoData)
    /\ UNCHANGED <<page, pipeline, now, pads, uploads, nextId, sw>>

DownloadServe(c) ==
    /\ cl[c].pc = "download_readdir"
    /\ IF <<cl[c].pad, cl[c].arg.id>> \in uploads
       THEN Respond(c, "download", cl[c].pad, cl[c].pw, cl[c].arg.id,
                    Rsp(200, [payload |-> <<cl[c].pad, cl[c].arg.id>>,
                              name |-> cl[c].arg.name]))
       ELSE Respond(c, "download", cl[c].pad, cl[c].pw, cl[c].arg.id,
                    Err(404, "File not found on disk"))
    /\ UNCHANGED <<page, pipeline, now, pads, uploads, nextId, sw>>

(***************************************************************************)
(* cleanupExpired: started at server start and by the hourly timer.  One   *)
(* run is in progress at a time.                                           *)
(***************************************************************************)
SweepIdle == [pc |-> "idle", padFiles |-> <<>>, data |-> NoData, at |-> 0,
              expired |-> <<>>]

RECURSIVE SeqOf(_)
SeqOf(S) ==
    IF S = {} THEN <<>>
    ELSE LET x == CHOOSE y \in S : TRUE IN <<x>> \o SeqOf(S \ {x})

IsExpired(f, t) == f.expiresAt < t

Expired(files, t) == SelectSeq(files, LAMBDA f : IsExpired(f, t))

\* Live keeping only the entries that expire after t.
LiveStrict(files, t) == SelectSeq(files, LAMBDA f : f.expiresAt > t)

Live(files, t) == SelectSeq(files, LAMBDA f : f.expiresAt >= t)

\* readdir(PADS_DIR)
SweepStart ==
    /\ sw.pc = "idle"
    /\ LET padFiles == SeqOf({p \in PadIds : Exists(p)})
       IN  sw' = IF padFiles = <<>> THEN SweepIdle
                 ELSE [SweepIdle EXCEPT !.pc = "read", !.padFiles = padFiles]
    /\ Silent
    /\ UNCHANGED <<page, pipeline, now, pads, uploads, nextId, cl>>

\* readFile of the next pad; the clock is read once for the pad.
SweepRead ==
    /\ sw.pc = "read"
    /\ LET padData == pads[Head(sw.padFiles)]
           expired == Expired(padData.files, now)
       IN  sw' = [sw EXCEPT !.pc = IF expired = <<>> THEN "write" ELSE "delete",
                            !.data = padData, !.at = now, !.expired = expired]
    /\ Silent
    /\ UNCHANGED <<page, pipeline, now, pads, uploads, nextId, cl>>

\* readdir of the pad's upload directory and unlink of the payload found.
SweepDelete ==
    /\ sw.pc = "delete"
    /\ uploads' = uploads \ {<<Head(sw.padFiles), Head(sw.expired).id>>}
    /\ sw' = [sw EXCEPT !.pc = IF Tail(sw.expired) = <<>> THEN "write" ELSE "delete",
                        !.expired = Tail(sw.expired)]
    /\ Silent
    /\ UNCHANGED <<page, pipeline, now, pads, nextId, cl>>

\* writeFile of the pad record with the live entries, then the next pad.
SweepWrite ==
    /\ sw.pc = "write"
    /\ pads' = [pads EXCEPT ![Head(sw.padFiles)] =
                   [sw.data EXCEPT !.files = Live(sw.data.files, sw.at)]]
    /\ sw' = IF Tail(sw.padFiles) = <<>> THEN SweepIdle
             ELSE [SweepIdle EXCEPT !.pc = "read", !.padFiles = Tail(sw.padFiles)]
    /\ Silent
    /\ UNCHANGED <<page, pipeline, now, uploads, nextId, cl>>

cleanupExpired == SweepStart \/ SweepRead \/ SweepDelete \/ SweepWrite

\* readFile or JSON.parse of the next pad throws (an unreadable file, a file
\* that is no pad record): the outer catch logs it and the run is over.
SweepReadThrows ==
    /\ sw.pc = "read"
    /\ sw' = SweepIdle
    /\ Silent
    /\ UNCHANGED <<page, pipeline, now, pads, uploads, nextId, cl>>

\* readdir or unlink throws: the inner catch logs it, the payload stays and
\* the loop goes on to the next expired entry.
SweepDeleteThrows ==
    /\ sw.pc = "delete"
    /\ sw' = [sw EXCEPT !.pc = IF Tail(sw.expired) = <<>> THEN "write" ELSE "delete",
                        !.expired = Tail(sw.expired)]
    /\ Silent
    /\ UNCHANGED <<page, pipeline, now, pads, uploads, nextId, cl>>

cleanupExpiredWithFailures ==
    cleanupExpired \/ SweepReadThrows \/ SweepDeleteThrows

(***************************************************************************)
(* The pad page's summarizer (src/unnamed/part_000, handleSummarize).  A   *)
(* text is its sentences (each ending in . ! or ?) and the unterminated    *)
(* rest; what the summary modal ends up showing is the step's response.    *)
(***************************************************************************)
MinSummaryLength == 50
FallbackSentences == 3

NoPipeline == "null"

RECURSIVE TotalLength(_)
TotalLength(strs) ==
    IF strs = <<>> THEN 0 ELSE Len(Head(strs)) + TotalLength(Tail(strs))

TextLength(text) == TotalLength(text.sentences) + Len(text.rest)

Shown(body) == Rsp(0, body)

generateFallbackSummary(text) ==
    LET first == SubSeq(text.sentences, 1,
                        IF Len(text.sentences) < FallbackSentences
                        THEN Len(text.sentences) ELSE FallbackSentences)
    IN  [summary |-> IF first # <<>> THEN first ELSE <<text.rest, "...">>,
         insights |-> "This is a basic summary."]

ModelSummary(text) ==
    [summary |-> <<"summary_text">>, insights |-> "This note contains words."]

handleSummarize(c, text) ==
    /\ Free(c)
    /\ IF TextLength(text) < MinSummaryLength
       THEN Respond(c, "summarize", "", <<>>, text,
                    Shown([alert |-> "Please write at least 50 characters to summarize"]))
       ELSE Suspend(c, IF pipeline = NoPipeline THEN "summarize_load"
                                               ELSE "summarize_generate",
                    "summarize", "", <<>>, text, NoData)
    /\ UNCHANGED <<page, pipeline, now, pads, uploads, nextId, sw>>

\* loadModel: the script loads and the pipeline is created, or the promise
\* is rejected and the catch schedules the fallback.
loadModel(c, ok) ==
    /\ cl[c].pc = "summarize_load"
    /\ pipeline' = IF ok THEN "distilbart-cnn-6-6" ELSE pipeline
    /\ Suspend(c, IF ok THEN "summarize_generate" ELSE "summarize_timer",
               "summarize", "", <<>>, cl[c].arg, NoData)
    /\ UNCHANGED <<page, now, pads, uploads, nextId, sw>>

\* generateSummary: the pipeline answers, or it throws and the catch
\* schedules the fallback.
generateSummary(c, ok) ==
    /\ cl[c].pc = "summarize_generate"
    /\ IF ok
       THEN Respond(c, "summarize", "", <<>>, cl[c].arg, Shown(ModelSummary(cl[c].arg)))
       ELSE Suspend(c, "summarize_timer", "summarize", "", <<>>, cl[c].arg, NoData)
    /\ UNCHANGED <<page, pipeline, now, pads, uploads, nextId, sw>>

\* The timer of the catch block showing nothing but the failure message.
FallbackTimerErrorOnly(c) ==
    /\ cl[c].pc = "summarize_timer"
    /\ Respond(c, "summarize", "", <<>>, cl[c].arg,
               Shown([error |-> "Summarization failed."]))
    /\ UNCHANGED <<page, pipeline, now, pads, uploads, nextId, sw>>

\* The timer of the catch block: displaySummary(generateFallbackSummary(text)).
FallbackTimer(c) ==
    /\ cl[c].pc = "summarize_timer"
    /\ Respond(c, "summarize", "", <<>>, cl[c].arg,
               Shown(generateFallbackSummary(cl[c].arg)))
    /\ UNCHANGED <<page, pipeline, now, pads, uploads, nextId, sw>>

(***************************************************************************)
(* The pad page's editor (src/unnamed/part_000): the auto-save timer, the  *)
(* save requests in flight and the save-status indicator.  A timer holds   *)
(* the time left until it is due; saveTimeout is the id setTimeout gave    *)
(* to the latest save timer.                                               *)
(***************************************************************************)
MaxTimers == 3

SaveDelay == 2000
SavedDelay == 2000

NoTimer == 0

PageInit ==
    [editor |-> "", saveTimeout |-> NoTimer, nextTimer |-> 1, timers |-> {},
     saveStatus |-> "Saved", fetches |-> <<>>]

EditorTexts == {"n", "no"}

\* res.ok, an error status (401, 500), fetch rejecting
Outcomes == {"ok", "not_ok", "rejected"}

Timer(id, fn, left) == [id |-> id, fn |-> fn, left |-> left]

clearTimeout(timers, id) == {t \in timers : t.id # id}

PageStep(pg) ==
    /\ page' = pg
    /\ Silent
    /\ UNCHANGED <<pipeline, now, pads, uploads, nextId, cl, sw>>

\* handleEditorChange leaving the pending timer alone.
handleEditorChangeNoClear(text) ==
    /\ page.nextTimer <= MaxTimers
    /\ PageStep([page EXCEPT
           !.editor = text,
           !.timers = @ \cup {Timer(page.nextTimer, "savePad", SaveDelay)},
           !.saveTimeout = page.nextTimer,
           !.nextTimer = @ + 1,
           !.saveStatus = "Typing..."])

\* The 'input' event of the editor, whose value is text by then.
handleEditorChange(text) ==
    /\ page.nextTimer <= MaxTimers
    /\ PageStep([page EXCEPT
           !.editor = text,
           !.timers = clearTimeout(@, page.saveTimeout)
                         \cup {Timer(page.nextTimer, "savePad", SaveDelay)},
           !.saveTimeout = page.nextTimer,
           !.nextTimer = @ + 1,
           !.saveStatus = "Typing..."])

\* d milliseconds pass; no timer is overdue.
Elapse(d) ==
    /\ page.timers # {}
    /\ \A t \in page.timers : t.left >= d
    /\ PageStep([page EXCEPT
           !.timers = {Timer(t.id, t.fn, t.left - d) : t \in page.timers}])

\* The save timer is due: savePad builds the request body from the editor
\* and awaits fetch.
savePad(t) ==
    /\ t \in page.timers
    /\ t.fn = "savePad"
    /\ t.left = 0
    /\ PageStep([page EXCEPT !.timers = @ \ {t},
                             !.fetches = Append(@, page.editor)])

\* The i-th request in flight settles and savePad resumes.
savePadResumes(i, outcome) ==
    /\ i \in 1..Len(page.fetches)
    /\ LET rest == SubSeq(page.fetches, 1, i - 1)
                      \o SubSeq(page.fetches, i + 1, Len(page.fetches))
       IN  CASE outcome = "ok" ->
                  PageStep([page EXCEPT
                     !.fetches = rest,
                     !.saveStatus = "Saved (check mark)",   \* 'Saved' and U+2713
                     !.timers = @ \cup {Timer(page.nextTimer, "saved", SavedDelay)},
                     !.nextTimer = @ + 1])
             [] outcome = "not_ok" ->
                  PageStep([page EXCEPT !.fetches = rest])
             [] outcome = "rejected" ->
                  PageStep([page EXCEPT !.fetches = rest,
                                        !.saveStatus = "Save failed"])

\* The timer set after a successful save is due.
savedTimer(t) ==
    /\ t \in page.timers
    /\ t.fn = "saved"
    /\ t.left = 0
    /\ PageStep([page EXCEPT !.timers = @ \ {t}, !.saveStatus = "Saved"])

(***************************************************************************)
(* Inputs of the requests                                                  *)
(***************************************************************************)
Pdf8 == <<37, 80, 68, 70, 45, 49, 46, 52>>
Png8 == <<137, 80, 78, 71, 13, 10, 26, 10>>
Jpeg8 == <<255, 216, 255, 224, 0, 16, 74, 70>>
Zip8 == <<80, 75, 3, 4, 20, 0, 6, 0>>
ZipEmpty8 == <<80, 75, 5, 6, 0, 0, 0, 0>>
Text8 == <<104, 101, 108, 108, 111, 32, 119, 111>>
Pdf4 == <<37, 80, 68, 70>>

File(stem, ext, header, size) ==
    [name |-> [stem |-> stem, ext |-> ext], header |-> header, size |-> size]

SampleFiles ==
    { File("report", ".pdf", Pdf8, 1024),
      File("notes", ".pdf", Text8, 1024),
      NoFile }

Init ==
    /\ now = 0
    /\ pads = [p \in PadIds |-> NoPad]
    /\ uploads = {}
    /\ nextId = 1
    /\ cl = [c \in Clients |-> Idle]
    /\ sw = SweepIdle
    /\ last = NoResponse
    /\ pipeline = NoPipeline
    /\ page = PageInit

Exts == {".pdf", ".PDF", ".jpg", ".jpeg", ".png", ".docx", ".txt", ""}
Headers == {Pdf8, Png8, Jpeg8, Zip8, ZipEmpty8, Text8}
Sizes == {MAX_FILE_SIZE, MAX_FILE_SIZE + 1}

AllFiles ==
    {File("file", e, h, n) : e \in Exts, h \in Headers, n \in Sizes}
    \cup {File("file", e, Pdf4, Len(Pdf4)) : e \in Exts}
    \cup {NoFile}

Clock == \E t \in Instants : Advance(t)

(***************************************************************************)
(* Spec: one client and the sweeper on the whole API; pads are created     *)
(* with the secret Abcd.                                                   *)
(***************************************************************************)
CreateSecrets == {Abcd, Abc, NoSecret}
RequestSecrets == {Abcd, Wxyz, NoSecret}

Request(c) ==
    \/ \E p \in RequestPads : CheckExists(c, p)
    \/ \E p \in RequestPads, pw \in CreateSecrets : CreateBegin(c, p, pw)
    \/ CreateWrite(c)
    \/ \E p \in RequestPads, pw \in RequestSecrets : Verify(c, p, pw)
    \/ \E p \in RequestPads, pw \in RequestSecrets : GetPad(c, p, pw)
    \/ \E p \in RequestPads, pw \in RequestSecrets, content \in Contents :
          SaveRead(c, p, pw, content)
    \/ SaveWrite(c)
    \/ \E p \in RequestPads, pw \in RequestSecrets, file \in SampleFiles :
          UploadRead(c, p, pw, file)
    \/ \E d \in {0, 1} : UploadPayload(c, d)
    \/ UploadRecord(c)
    \/ \E p \in RequestPads, pw \in RequestSecrets, fileId \in FileIds :
          DownloadRead(c, p, pw, fileId)
    \/ DownloadServe(c)

Next ==
    \/ Clock
    \/ Request("c1")
    \/ cleanupExpired

Spec == Init /\ [][Next]_vars

(***************************************************************************)
(* PadSpec: one client on the pad routes, with every secret.               *)
(***************************************************************************)
PadRequest(c) ==
    \/ \E p \in RequestPads : CheckExists(c, p)
    \/ \E p \in RequestPads, pw \in Secrets : CreateBegin(c, p, pw)
    \/ CreateWrite(c)
    \/ \E p \in RequestPads, pw \in Secrets : Verify(c, p, pw)
    \/ \E p \in RequestPads, pw \in Secrets : GetPad(c, p, pw)
    \/ \E p \in RequestPads, pw \in Secrets, content \in Contents :
          SaveRead(c, p, pw, content)
    \/ SaveWrite(c)

PadNext ==
    \/ Clock
    \/ PadRequest("c1")

PadSpec == Init /\ [][PadNext]_vars

(***************************************************************************)
(* UploadSpec: one client uploading every file of AllFiles.                *)
(***************************************************************************)
UploadRequest(c) ==
    \/ \E p \in RequestPads : CreateBegin(c, p, Abcd)
    \/ CreateWrite(c)
    \/ \E p \in RequestPads, pw \in {Abcd, Wxyz} : GetPad(c, p, pw)
    \/ \E p \in RequestPads, pw \in {Abcd, Wxyz}, file \in AllFiles :
          UploadRead(c, p, pw, file)
    \/ UploadPayload(c, 0)
    \/ UploadRecord(c)

UploadNext == UploadRequest("c1")

UploadSpec == Init /\ [][UploadNext]_vars

(***************************************************************************)
(* FairSpec: uploads, the clock and the sweeper, where the sweeper and     *)
(* every suspended handler keep running.                                   *)
(***************************************************************************)
FairRequest(c) ==
    \/ \E p \in RequestPads : CreateBegin(c, p, Abcd)
    \/ CreateWrite(c)
    \/ \E p \in RequestPads, file \in SampleFiles : UploadRead(c, p, Abcd, file)
    \/ \E d \in {0, 1} : UploadPayload(c, d)
    \/ UploadRecord(c)
    \/ \E p \in RequestPads, content \in Contents : SaveRead(c, p, Abcd, content)
    \/ SaveWrite(c)

Resume(c) ==
    CreateWrite(c) \/ SaveWrite(c) \/ UploadPayload(c, 0) \/ UploadRecord(c)

FairNext ==
    \/ Clock
    \/ FairRequest("c1")
    \/ cleanupExpired

FairSpec ==
    /\ Init
    /\ [][FairNext]_vars
    /\ WF_vars(cleanupExpired)
    /\ WF_vars(Resume("c1"))

(***************************************************************************)
(* HashSpec: one client creating pads and verifying passwords, with        *)
(* passwords of one, two, three and four byte characters and with          *)
(* surrogates that have no partner.                                        *)
(***************************************************************************)
Cafe == <<99, 97, 102, 233>>
Euro == <<49, 48, 48, 8364>>
Smile == <<97, 98, 55357, 56832>>
HalfHigh == <<97, 98, 99, 55296>>
HalfLow == <<97, 98, 99, 56320>>

HashSecrets == {Abcd, Wxyz, Cafe, Euro, Smile, HalfHigh, HalfLow, NoSecret}

HashRequest(c) ==
    \/ \E p \in RequestPads, pw \in HashSecrets : CreateBegin(c, p, pw)
    \/ CreateWrite(c)
    \/ \E p \in RequestPads, pw \in HashSecrets : Verify(c, p, pw)

HashNext ==
    \/ Clock
    \/ HashRequest("c1")

HashSpec == Init /\ [][HashNext]_vars

(***************************************************************************)
(* SweepSpec: uploads to two pads, the clock and a sweeper whose file      *)
(* system operations can fail.                                             *)
(***************************************************************************)
SweepPads == {"demo", "notes"}

SweepRequest(c) ==
    \/ \E p \in SweepPads : CreateUnused(c, p, Abcd)
    \/ CreateWrite(c)
    \/ \E p \in SweepPads : UploadRead(c, p, Abcd, File("report", ".pdf", Pdf8, 1024))
    \/ UploadPayload(c, 0)
    \/ UploadRecord(c)

SweepNext ==
    \/ Clock
    \/ SweepRequest("c1")
    \/ cleanupExpiredWithFailures

SweepSpec == Init /\ [][SweepNext]_vars

(***************************************************************************)
(* NameSpec: one client creating pads under well-formed and other names.   *)
(***************************************************************************)
NamePads == {"demo", "ab", "a b"}

NameRequest(c) ==
    \/ \E p \in NamePads : CheckExists(c, p)
    \/ \E p \in NamePads, pw \in CreateSecrets : CreateBegin(c, p, pw)
    \/ CreateWrite(c)

NameNext ==
    \/ Clock
    \/ NameRequest("c1")

NameSpec == Init /\ [][NameNext]_vars

(***************************************************************************)
(* SummarySpec: one client saving a pad and summarizing texts, with a      *)
(* model that may fail to load and a pipeline that may throw.              *)
(***************************************************************************)
Text(sentences, rest) == [sentences |-> sentences, rest |-> rest]

Texts ==
    { Text(<<"The plan has four phases.", "The budget is fixed!",
             "Who signs it off?", "Nobody knows yet.">>, ""),
      Text(<<"One sentence only, followed by a long tail.">>,
           "and this part never ends with a full stop"),
      Text(<<>>, "no sentence at all in this text that goes on and on and on"),
      Text(<<"Too short.">>, "") }

SummaryRequest(c) ==
    \/ \E p \in RequestPads : CreateBegin(c, p, Abcd)
    \/ CreateWrite(c)
    \/ \E p \in RequestPads, content \in Contents : SaveRead(c, p, Abcd, content)
    \/ SaveWrite(c)
    \/ \E p \in RequestPads : GetPad(c, p, Abcd)
    \/ \E text \in Texts : handleSummarize(c, text)
    \/ \E ok \in BOOLEAN : loadModel(c, ok)
    \/ \E ok \in BOOLEAN : generateSummary(c, ok)
    \/ FallbackTimer(c)

SummaryNext ==
    \/ Clock
    \/ SummaryRequest("c1")

SummarySpec == Init /\ [][SummaryNext]_vars

(***************************************************************************)
(* ConcSpec: two clients whose requests interleave at every await.  A      *)
(* create is sent only for a pad that does not exist when the request      *)
(* arrives.                                                                *)
(***************************************************************************)
ConcContents == {"hello world", "goodbye"}

ConcRequest(c) ==
    \/ \E p \in RequestPads, pw \in {Abcd, Wxyz} : CreateUnused(c, p, pw)
    \/ CreateWrite(c)
    \/ \E p \in RequestPads, pw \in {Abcd, Wxyz} : GetPad(c, p, pw)
    \/ \E p \in RequestPads, pw \in {Abcd, Wxyz}, content \in ConcContents :
          SaveRead(c, p, pw, content)
    \/ SaveWrite(c)

ConcNext == \E c \in Clients : ConcRequest(c)

ConcSpec == Init /\ [][ConcNext]_vars

(***************************************************************************)
(* RaceSpec: two clients saving, uploading and downloading on one pad      *)
(* while the clock and the sweeper run; every request carries the pad's    *)
(* secret, and a create is sent only for a pad that does not exist.        *)
(***************************************************************************)
RaceRequest(c) ==
    \/ \E p \in RequestPads : CreateUnused(c, p, Abcd)
    \/ CreateWrite(c)
    \/ \E p \in RequestPads, content \in ConcContents : SaveRead(c, p, Abcd, content)
    \/ SaveWrite(c)
    \/ \E p \in RequestPads :
          UploadRead(c, p, Abcd, File("report", ".pdf", Pdf8, 1024))
    \/ UploadPayload(c, 0)
    \/ UploadRecord(c)
    \/ \E p \in RequestPads, fileId \in FileIds : DownloadRead(c, p, Abcd, fileId)
    \/ DownloadServe(c)

RaceNext ==
    \/ Clock
    \/ \E c \in Clients : RaceRequest(c)
    \/ cleanupExpired

RaceSpec == Init /\ [][RaceNext]_vars

(***************************************************************************)
(* SeqSpec: uploads to two pads, downloads, the clock and the sweeper,     *)
(* where a sweep starts only when no request is in progress and no request *)
(* starts while a sweep is in progress.                                    *)
(***************************************************************************)
SeqRequest(c) ==
    \/ sw.pc = "idle" /\ \E p \in SweepPads : CreateUnused(c, p, Abcd)
    \/ CreateWrite(c)
    \/ sw.pc = "idle" /\ \E p \in SweepPads :
                            UploadRead(c, p, Abcd, File("report", ".pdf", Pdf8, 1024))
    \/ UploadPayload(c, 0)
    \/ UploadRecord(c)
    \/ sw.pc = "idle" /\ \E p \in SweepPads, fileId \in FileIds :
                            DownloadRead(c, p, Abcd, fileId)
    \/ DownloadServe(c)

SeqSweep ==
    \/ (\A c \in Clients : Free(c)) /\ SweepStart
    \/ SweepRead
    \/ SweepDelete
    \/ SweepWrite

SeqSpec == Init /\ [][Clock \/ SeqRequest("c1") \/ SeqSweep]_vars

(***************************************************************************)
(* ByteSpec: authorized uploads, within the size limit, of the same        *)
(* payloads under different names.                                         *)
(***************************************************************************)
ByteFiles ==
    {File(stem, e, h, 1024) : stem \in {"file", "scan"},
                              e \in {".pdf", ".PDF", ".png", ".txt"},
                              h \in {Pdf8, Png8, Text8}}

ByteRequest(c) ==
    \/ \E p \in RequestPads : CreateUnused(c, p, Abcd)
    \/ CreateWrite(c)
    \/ \E p \in RequestPads, file \in ByteFiles : UploadRead(c, p, Abcd, file)
    \/ UploadPayload(c, 0)
    \/ UploadRecord(c)

ByteSpec == Init /\ [][ByteRequest("c1")]_vars

(***************************************************************************)
(* EditSpec: the editor of the pad page: inputs, the passing of time, the  *)
(* timers and the save requests in flight.  EditFairSpec: the same where   *)
(* time passes, due timers run and every request settles.                  *)
(***************************************************************************)
EditProgress ==
    \/ \E d \in {SaveDelay \div 2, SaveDelay} : Elapse(d)
    \/ \E t \in page.timers : savePad(t)
    \/ \E t \in page.timers : savedTimer(t)
    \/ \E i \in 1..MaxTimers, outcome \in Outcomes : savePadResumes(i, outcome)

EditNext ==
    \/ \E text \in EditorTexts : handleEditorChange(text)
    \/ EditProgress

EditSpec == Init /\ [][EditNext]_vars

EditFairSpec == EditSpec /\ WF_vars(EditProgress)

(***************************************************************************)
(* Outcomes named by the specification                                     *)
(***************************************************************************)
Authorized(p, pw) ==
    /\ Exists(p)
    /\ ~HashThrows(pw)
    /\ PasswordMatches(pads[p], pw)

ValidSecret(pw) == pw # NoSecret /\ Len(pw) >= MinPasswordLength

AlreadyExists(resp) == resp.status = 409

Unauthorized(resp) == resp.status = 401

\* A refusal carries an error and nothing else.
Refused(resp) == resp.status # 200 /\ DOMAIN resp.body = {"error"}

InvalidFile(resp) ==
    \/ resp = Err(400, "Invalid or corrupted file")
    \/ resp = Err(500, "Invalid file type")

TooLarge(resp) == resp = Err(500, "File too large")

InList(p, id) ==
    /\ Exists(p)
    /\ \E i \in 1..Len(pads[p].files) : pads[p].files[i].id = id

ExpiredInList(p, id) ==
    /\ Exists(p)
    /\ \E i \in 1..Len(pads[p].files) :
          pads[p].files[i].id = id /\ pads[p].files[i].expiresAt < now

\* The header starts with none of the signatures validateMime knows.
NoSignature(header) ==
    LET h == ToHex(header)
    IN  \A sig \in {SigPdf, SigJpeg, SigPng, SigZip, SigZipEmpty} : ~StartsWith(h, sig)

GatedOps == {"get", "save", "upload", "download"}

(***************************************************************************)
(* C1: a create request for a pad id that already denotes a pad, with a    *)
(* valid secret, fails with AlreadyExists and leaves the pad's content,    *)
(* attachment list and credential hash as they were.                       *)
(***************************************************************************)
C1_CreateExistingFails ==
    [][(last'.op = "create" /\ Exists(last'.pad) /\ ValidSecret(last'.pw))
          => (AlreadyExists(last'.resp) /\ pads' = pads)]_vars

(***************************************************************************)
(* C2: a save request on an existing pad with a secret that does not       *)
(* verify against the stored hash fails, with Unauthorized when a secret   *)
(* was supplied, and leaves the stored content and last-modified timestamp *)
(* (the whole record) as they were.                                        *)
(***************************************************************************)
C2_FailedSaveKeepsPad ==
    [][(last'.op = "save" /\ Exists(last'.pad)
           /\ ~PasswordMatches(pads[last'.pad], last'.pw))
          => /\ Refused(last'.resp)
             /\ last'.pw # NoSecret => Unauthorized(last'.resp)
             /\ pads'[last'.pad].content = pads[last'.pad].content
             /\ pads'[last'.pad].lastModified = pads[last'.pad].lastModified
             /\ pads' = pads]_vars

C2_Witness ==
    /\ last.op = "save"
    /\ Unauthorized(last.resp)
    /\ pads[last.pad].content = "hello world"

(***************************************************************************)
(* C3: a get, save, upload or download request whose secret is missing or  *)
(* wrong is refused without content, attachment list or payload and        *)
(* changes neither the pad records nor the payloads; every suspended       *)
(* handler of these routes holds a secret that verifies, and every change  *)
(* of the stored state is made by the sweeper, by a create or by a request *)
(* whose secret verifies.                                                  *)
(***************************************************************************)
C3_SecretGatesAccess ==
    [][/\ (last'.op \in GatedOps /\ ~Authorized(last'.pad, last'.pw))
             => (Refused(last'.resp) /\ pads' = pads /\ uploads' = uploads)
       /\ \A c \in Clients :
             cl[c].op \in GatedOps => Authorized(cl[c].pad, cl[c].pw)
       /\ (pads' # pads \/ uploads' # uploads)
             => \/ sw' # sw
                \/ \E c \in Clients :
                      /\ cl[c].pc # "idle"
                      /\ cl'[c] # cl[c]
                      /\ cl[c].op = "create" \/ Authorized(cl[c].pad, cl[c].pw)]_vars

C3_Witness ==
    /\ last.op = "download"
    /\ Unauthorized(last.resp)
    /\ last.pw = Wxyz
    /\ InList(last.pad, last.arg)
    /\ <<last.pad, last.arg>> \in uploads

(***************************************************************************)
(* C4: the verify route answers a request for a pad that exists with a     *)
(* wrong secret exactly as it answers the same request when no pad of that *)
(* id exists.                                                              *)
(***************************************************************************)
NoPads == [p \in PadIds |-> NoPad]

C4_VerifyHidesExistence ==
    [][(last'.op = "verify" /\ Exists(last'.pad) /\ last'.pw # NoSecret
           /\ ~PasswordMatches(pads[last'.pad], last'.pw))
          => last'.resp = VerifyResponse(NoPads, last'.pad, last'.pw)]_vars

(***************************************************************************)
(* C5: a download request that is processed when the attachment's expiry   *)
(* has passed is refused without the payload, whether or not the sweeper   *)
(* has run, and no handler goes on to serve an attachment it found         *)
(* expired.                                                                *)
(***************************************************************************)
C5_ExpiredNeverServed ==
    [][/\ (last'.op = "download" /\ cl' = cl
              /\ ExpiredInList(last'.pad, last'.arg))
             => Refused(last'.resp)
       /\ \A c \in Clients :
             (cl[c].pc = "idle" /\ cl'[c].pc = "download_readdir")
                => ~ExpiredInList(cl'[c].pad, cl'[c].arg.id)]_vars

C5_Witness ==
    /\ last.op = "download"
    /\ last.pw = Abcd
    /\ ExpiredInList(last.pad, last.arg)
    /\ <<last.pad, last.arg>> \in uploads
    /\ Refused(last.resp)

(***************************************************************************)
(* C6: an authorized download that finds the attachment expired removes    *)
(* its metadata and its payload in the same request.                       *)
(***************************************************************************)
C6_ExpiredDownloadPurges ==
    [][(last'.op = "download" /\ last'.resp = Err(410, "File expired"))
          => /\ \A i \in 1..Len(pads'[last'.pad].files) :
                   pads'[last'.pad].files[i].id # last'.arg
             /\ <<last'.pad, last'.arg>> \notin uploads']_vars

(***************************************************************************)
(* C7: with the sweeper running again and again, every attachment whose    *)
(* expiry has passed eventually has its metadata out of the pad's list and *)
(* its payload off the disk.                                               *)
(***************************************************************************)
C7_ExpiredEventuallyPurged ==
    \A p \in PadIds, id \in FileIds :
        ExpiredInList(p, id) ~> (~InList(p, id) /\ <<p, id>> \notin uploads)

(***************************************************************************)
(* C8: every stored attachment has expiresAt = uploadedAt + 24 hours.      *)
(***************************************************************************)
C8_ExpiryIsUploadPlusLifetime ==
    \A p \in PadIds :
        Exists(p) => \A i \in 1..Len(pads[p].files) :
            pads[p].files[i].expiresAt = pads[p].files[i].uploadedAt + Lifetime

(***************************************************************************)
(* C9: an authorized upload of a payload whose leading bytes match none of *)
(* the allowed signatures fails with InvalidFile, whatever the filename,   *)
(* and stores neither a payload nor a metadata entry.                      *)
(***************************************************************************)
C9_NoSignatureRejected ==
    [][(last'.op = "upload" /\ last'.arg # NoFile
           /\ Authorized(last'.pad, last'.pw)
           /\ NoSignature(last'.arg.header))
          => (InvalidFile(last'.resp) /\ pads' = pads /\ uploads' = uploads)]_vars

\* C9 as amended: the same for payloads within the size ceiling.
C9_NoSignatureWithinCeilingRejected ==
    [][(last'.op = "upload" /\ last'.arg # NoFile
           /\ Authorized(last'.pad, last'.pw)
           /\ NoSignature(last'.arg.header)
           /\ last'.arg.size <= MAX_FILE_SIZE)
          => (InvalidFile(last'.resp) /\ pads' = pads /\ uploads' = uploads)]_vars

C9_Witness ==
    /\ last.op = "upload"
    /\ last.arg # NoFile
    /\ Authorized(last.pad, last.pw)
    /\ extname(last.arg.name) = ".pdf"
    /\ last.arg.header = Text8
    /\ last.resp = Err(400, "Invalid or corrupted file")

(***************************************************************************)
(* C10: an upload whose size exceeds the 10 MiB ceiling fails with         *)
(* TooLarge, and neither a payload nor a metadata entry of it is ever in   *)
(* storage.                                                                *)
(***************************************************************************)
C10_OversizeRejected ==
    [][/\ (last'.op = "upload" /\ last'.arg # NoFile
              /\ last'.arg.size > MAX_FILE_SIZE)
             => (TooLarge(last'.resp) /\ pads' = pads /\ uploads' = uploads)
       /\ \A c \in Clients :
             cl[c].op = "upload" => cl[c].arg.file.size <= MAX_FILE_SIZE]_vars

\* C10 as amended: the same for files whose extension is an allowed one.
C10_OversizeAllowedExtRejected ==
    [][/\ (last'.op = "upload" /\ last'.arg # NoFile
              /\ last'.arg.size > MAX_FILE_SIZE
              /\ ToLowerCase(extname(last'.arg.name)) \in AllowedExts)
             => (TooLarge(last'.resp) /\ pads' = pads /\ uploads' = uploads)
       /\ \A c \in Clients :
             cl[c].op = "upload" => cl[c].arg.file.size <= MAX_FILE_SIZE]_vars

C10_Witness ==
    /\ last.op = "upload"
    /\ last.arg # NoFile
    /\ Authorized(last.pad, last.pw)
    /\ last.arg.size = MAX_FILE_SIZE + 1
    /\ TooLarge(last.resp)

C12_VerifyIffSameSecret ==
    [][(last'.op = "verify" /\ Exists(last'.pad) /\ last'.pw # NoSecret)
          => \A s2 \in HashSecrets \ {NoSecret} :
                pads[last'.pad].passwordHash = hashPassword(s2)
                   => last'.resp = Rsp(200, [success |-> (last'.pw = s2)])]_vars

\* Every surrogate of the string has its partner next to it.
RECURSIVE WellFormed(_)
WellFormed(units) ==
    IF units = <<>> THEN TRUE
    ELSE IF IsHighSurrogate(Head(units))
    THEN /\ Len(units) >= 2
         /\ IsLowSurrogate(units[2])
         /\ WellFormed(Tail(Tail(units)))
    ELSE ~IsLowSurrogate(Head(units)) /\ WellFormed(Tail(units))

\* C12 as amended: the same for passwords that are well-formed UTF-16.
C12_VerifyIffSameWellFormedSecret ==
    [][(last'.op = "verify" /\ Exists(last'.pad) /\ last'.pw # NoSecret
           /\ WellFormed(last'.pw))
          => \A s2 \in HashSecrets \ {NoSecret} :
                (WellFormed(s2) /\ pads[last'.pad].passwordHash = hashPassword(s2))
                   => last'.resp = Rsp(200, [success |-> (last'.pw = s2)])]_vars

C12_Witness ==
    /\ last.op = "verify"
    /\ last.pw = Cafe
    /\ Exists(last.pad)
    /\ pads[last.pad].passwordHash = hashPassword(Smile)
    /\ last.resp = Rsp(200, [success |-> FALSE])

(***************************************************************************)
(* C13: a get, save, upload or download request (an upload with a file     *)
(* that passes the file checks) for a pad that does not exist fails with   *)
(* NotFound, one for an existing pad with a wrong secret fails with        *)
(* Unauthorized, and neither writes a pad record.                          *)
(***************************************************************************)
NotFound(resp) == resp.status = 404

PassesFileChecks(file) ==
    /\ file # NoFile
    /\ fileFilter(file)
    /\ ~OverLimit(file)
    /\ validateMime(file)

C13_NotFoundOrUnauthorized ==
    [][(/\ last'.op \in GatedOps
        /\ last'.pw # NoSecret
        /\ last'.op = "upload" => PassesFileChecks(last'.arg))
          => /\ ~Exists(last'.pad)
                   => (NotFound(last'.resp) /\ Refused(last'.resp) /\ pads' = pads)
             /\ (Exists(last'.pad) /\ ~PasswordMatches(pads[last'.pad], last'.pw))
                   => (Unauthorized(last'.resp) /\ pads' = pads)]_vars

(***************************************************************************)
(* C14: an authorized download that arrives when the expiry of an uploaded *)
(* attachment has passed is answered Expired, and it is still answered     *)
(* Expired, not NotFound, after a step of the sweeper: the sweeper leaves  *)
(* every expired attachment in the state in which its download is answered *)
(* Expired.                                                                *)
(***************************************************************************)
ExpiredOutcome(resp) == resp = Err(410, "File expired")

C14_ExpiredNotNotFound ==
    [][/\ (last'.op = "download" /\ cl' = cl
              /\ Authorized(last'.pad, last'.pw)
              /\ ExpiredInList(last'.pad, last'.arg))
             => (ExpiredOutcome(last'.resp) /\ ~NotFound(last'.resp))
       /\ \A p \in PadIds, id \in FileIds :
             (sw' # sw /\ ExpiredInList(p, id)) => ExpiredInList(p, id)']_vars

(***************************************************************************)
(* C15: a failure inside a sweep does not stop it: a run of the sweeper    *)
(* ends only when no pad is left to process, and every step on the expired *)
(* entries of a pad goes on to the next entry of the same pad.             *)
(***************************************************************************)
C15_SweepFailureIsolated ==
    [][/\ (sw.pc # "idle" /\ sw'.pc = "idle") => Tail(sw.padFiles) = <<>>
       /\ (sw.pc = "delete" /\ sw' # sw)
             => /\ sw'.padFiles = sw.padFiles
                /\ sw'.expired = Tail(sw.expired)]_vars

(***************************************************************************)
(* C16: a pad that exists keeps existing and keeps its credential hash in  *)
(* every step.                                                             *)
(***************************************************************************)
C16_HashSetOnce ==
    [][\A p \in PadIds :
          Exists(p) => /\ pads'[p] # NoPad
                       /\ pads'[p].passwordHash = pads[p].passwordHash]_vars

(***************************************************************************)
(* C17: a create request whose pad name is not 3 to 50 letters, digits,    *)
(* hyphens or underscores, or whose password is missing or shorter than 4  *)
(* characters, is answered 400 and writes no pad record.                   *)
(***************************************************************************)
\* The characters (code units) of the pad names of the model.
Chars(name) ==
    CASE name = "demo" -> <<100, 101, 109, 111>>
      [] name = "notes" -> <<110, 111, 116, 101, 115>>
      [] name = "ab" -> <<97, 98>>
      [] name = "a b" -> <<97, 32, 98>>

\* [a-zA-Z0-9_-]
IsUrlChar(u) ==
    \/ u >= 97 /\ u <= 122
    \/ u >= 65 /\ u <= 90
    \/ u >= 48 /\ u <= 57
    \/ u = 95
    \/ u = 45

isValidCustomUrl(urlName) ==
    LET u == Chars(urlName)
    IN  /\ Len(u) >= 3
        /\ Len(u) <= 50
        /\ \A i \in 1..Len(u) : IsUrlChar(u[i])

BadRequest(resp) == resp.status = 400

C17_CreateValidatesInput ==
    [][/\ (last'.op = "create"
              /\ (~isValidCustomUrl(last'.pad) \/ ~ValidSecret(last'.pw)))
             => (BadRequest(last'.resp) /\ pads' = pads)
       /\ \A c \in Clients :
             cl'[c].op = "create"
                => (isValidCustomUrl(cl'[c].pad) /\ ValidSecret(cl'[c].pw))]_vars

C19_OneCreateWins ==
    [][\A c \in Clients :
          (cl[c].pc = "create_write" /\ cl'[c] # cl[c])
             => /\ Exists(cl[c].pad) => last'.resp.status # 200
                /\ last'.resp.status = 200
                      => pads'[cl[c].pad].passwordHash = hashPassword(cl[c].pw)]_vars

(***************************************************************************)
(* C20: an authorized save that has read the record reports success when   *)
(* its write is committed, whatever another save did in between, and the   *)
(* stored content is then exactly the content it carried: neither a        *)
(* mixture nor the content from before the saves.                          *)
(***************************************************************************)
C20_LastSaveWins ==
    [][\A c \in Clients :
          (cl[c].pc = "save_write" /\ cl'[c] # cl[c])
             => /\ last'.op = "save"
                /\ last'.resp = Rsp(200, [success |-> TRUE])
                /\ pads'[cl[c].pad].content = cl[c].arg
                /\ pads'[cl[c].pad].content \in ConcContents]_vars

C20_Witness ==
    /\ last.op = "save"
    /\ last.resp.status = 200
    /\ last.arg = "goodbye"
    /\ pads[last.pad].content = "goodbye"
    /\ cl["c1"].pc = "save_write"
    /\ cl["c1"].pad = last.pad
    /\ cl["c1"].arg = "hello world"
    /\ cl["c1"].data.content = "hello world"

(***************************************************************************)
(* C21: the write of a successful save leaves the pad's attachment list    *)
(* and credential hash as they were stored just before the write; it       *)
(* changes only the content and the last-modified timestamp.               *)
(***************************************************************************)
C21_SaveKeepsAttachments ==
    [][\A c \in Clients :
          (cl[c].pc = "save_write" /\ cl'[c] # cl[c] /\ Exists(cl[c].pad))
             => /\ pads'[cl[c].pad].files = pads[cl[c].pad].files
                /\ pads'[cl[c].pad].passwordHash = pads[cl[c].pad].passwordHash]_vars

(***************************************************************************)
(* C22: whenever no request and no sweep is in progress, every pad's       *)
(* attachment list names exactly the attachments that have a payload in    *)
(* the pad's upload directory.                                             *)
(***************************************************************************)
Quiescent == sw.pc = "idle" /\ \A c \in Clients : cl[c].pc = "idle"

ListedIds(p) ==
    IF Exists(p) THEN {pads[p].files[i].id : i \in 1..Len(pads[p].files)} ELSE {}

StoredIds(p) == {id \in FileIds : <<p, id>> \in uploads}

C22_MetadataMatchesPayloads ==
    Quiescent => \A p \in PadIds : ListedIds(p) = StoredIds(p)

(***************************************************************************)
(* C23: an attachment that is in its pad's list (its upload has been       *)
(* acknowledged) and has not expired is still in the list, with the same   *)
(* metadata, after every step.                                             *)
(***************************************************************************)
C23_LiveAttachmentStays ==
    [][\A p \in PadIds, id \in FileIds :
          (InList(p, id) /\ Find(pads[p].files, id).expiresAt >= now')
             => /\ pads'[p] # NoPad
                /\ Find(pads'[p].files, id) = Find(pads[p].files, id)]_vars

(***************************************************************************)
(* C24: an attachment that has been purged (its id was handed out, its     *)
(* payload is off the disk and its entry out of the pad's list) is not in  *)
(* the pad's list after any later step.                                    *)
(***************************************************************************)
Purged(p, id) ==
    /\ id < nextId
    /\ Exists(p)
    /\ ~InList(p, id)
    /\ <<p, id>> \notin uploads
    /\ \A c \in Clients :
          ~(cl[c].pc = "upload_payload" /\ cl[c].arg.id = id)

C24_PurgedStaysPurged ==
    [][\A p \in PadIds, id \in FileIds :
          Purged(p, id) => ~InList(p, id)']_vars

(***************************************************************************)
(* C25: a sweep that is not interleaved with a request writes, for each    *)
(* pad, the entries whose expiry is not earlier than its clock reading, in *)
(* their order; the payloads of the entries it removed are off the disk    *)
(* and it deletes no other payload; an entry whose expiry equals the clock *)
(* is kept, and a download of it at that instant is admitted and served.   *)
(***************************************************************************)
AtBoundary(p, id) ==
    /\ InList(p, id)
    /\ Find(pads[p].files, id).expiresAt = now

SameBytes(f, g) == f.header = g.header /\ f.size = g.size

SameExt(f, g) == ToLowerCase(extname(f.name)) = ToLowerCase(extname(g.name))

NothingExpired(p) ==
    Exists(p) => \A i \in 1..Len(pads[p].files) : ~(pads[p].files[i].expiresAt < now)

C27_PurgeIdempotent ==
    [][/\ (sw' # sw /\ \A p \in PadIds : NothingExpired(p))
             => (pads' = pads /\ uploads' = uploads)
       /\ (last'.op = "download" /\ Authorized(last'.pad, last'.pw)
              /\ Purged(last'.pad, last'.arg))
             => (last'.resp = Err(404, "File not found")
                   /\ pads' = pads /\ uploads' = uploads)
       /\ (last'.op = "download" /\ last'.resp = Err(410, "File expired"))
             => \A p \in PadIds : p = last'.pad => NothingExpired(p)']_vars

(***************************************************************************)
(* C28: the stored content of a pad is that of the save committed last:    *)
(* once a pad exists, only the write of a save (or of a create) changes    *)
(* its content; the write of an upload or of a sweep leaves the content as *)
(* the last save wrote it.                                                 *)
(***************************************************************************)
C28_ContentFromLastSave ==
    [][\A p \in PadIds :
          (Exists(p) /\ pads'[p].content # pads[p].content)
             => \E c \in Clients :
                   /\ cl[c].pc \in {"save_write", "create_write"}
                   /\ cl[c].pad = p
                   /\ cl'[c] # cl[c]]_vars

(***************************************************************************)
(* C29: at most one save timer is pending; an input leaves exactly one,    *)
(* the one it set, with the full delay left; a save request is sent only   *)
(* by a due save timer, one request per timer, carrying the editor's value *)
(* at that moment, and no save timer is pending then; a pending save timer *)
(* eventually runs.                                                        *)
(***************************************************************************)
SaveTimers(pg) == {t \in pg.timers : t.fn = "savePad"}

C29_Debounce ==
    /\ [][/\ Cardinality(SaveTimers(page')) <= 1
          /\ page'.saveTimeout # page.saveTimeout
                => SaveTimers(page') = {Timer(page'.saveTimeout, "savePad", SaveDelay)}
          /\ page'.fetches # page.fetches /\ Len(page'.fetches) >= Len(page.fetches)
                => /\ page'.fetches = Append(page.fetches, page.editor)
                   /\ \E t \in SaveTimers(page) : t.left = 0
                   /\ SaveTimers(page') = {}]_vars
    /\ (SaveTimers(page) # {}) ~> (SaveTimers(page) = {})

\* After two inputs one request is in flight; it carries the editor's value
\* and no save timer is pending.
C29_Witness ==
    /\ page.nextTimer = 3
    /\ page.saveStatus = "Typing..."
    /\ page.fetches = <<page.editor>>
    /\ SaveTimers(page) = {}

(***************************************************************************)
(* C30: when the save-status indicator shows 'Typing...', it eventually    *)
(* shows something else.                                                   *)
(***************************************************************************)
C30_LeavesTyping ==
    (page.saveStatus = "Typing...") ~> (page.saveStatus # "Typing...")

====
